---- MODULE Spec2Model ----
(***************************************************************************)
(* A model of app.py, the Streamlit student dashboard.                     *)
(*                                                                         *)
(* Streamlit executes the whole script top to bottom on the first visit    *)
(* and again after every widget interaction.  One run of the script is     *)
(* therefore one atomic step of the model: it reads the three CSV files,   *)
(* reads the current widget values, computes every derived table and       *)
(* emits the page elements in order.  An exception raised by a statement   *)
(* ends the run there; what was emitted before it stays on the page.       *)
(*                                                                         *)
(* A DataFrame is a record [columns, rows]: the set of its column names    *)
(* and the sequence of its rows, each row a function from the column names *)
(* to cell values.  A float produced by mean() is kept as an exact         *)
(* fraction [num, den] in lowest terms; NaN, the missing value, is 0/0.    *)
(* (For group sizes far below 2^53 the comparisons of such a float with    *)
(* 0, 75 and 100 agree with the comparisons of the exact fraction.)        *)
(* Student, Subject and Marks cells are taken to be filled in, as the      *)
(* column schemas of the three files say.                                  *)
(***************************************************************************)
EXTENDS Integers, Sequences, FiniteSets, TLC

\* ---------------------------------------------------------------- bounds
\* Longest attendance table over one student and one subject (a group of
\* four rows is the smallest that can be 75% present).
MaxAtt == 4
\* Longest attendance table over two students and two subjects.
MaxWide == 2
\* Longest marks table of the marks inputs.
MaxMarks == 2
\* Longest events table of the events inputs.
MaxEvents == 2
\* Event dates are the days 0 .. MaxDay.
MaxDay == 9
\* The run's date (datetime.date.today()) is one of the days 1 .. MaxToday.
MaxToday == 2

\* ------------------------------------------------------------- constants
LOW_ATTENDANCE_THRESHOLD == 75
FAILING_MARK_THRESHOLD == 40
\* datetime.timedelta(days=7)
DEADLINE_DAYS == 7

ALL_STUDENTS == "All Students"
ALL_SUBJECTS == "All Subjects"

\* ------------------------------------------------------ values and floats
\* Every string the model uses, in Python's string order (groupby sorts its
\* group keys).
NameOrder == <<"All Students", "All Subjects", "Ann", "Bob", "Math", "Sci">>

StrRank(s) == CHOOSE i \in 1..Len(NameOrder) : NameOrder[i] = s

Range(s) == {s[i] : i \in 1..Len(s)}

RECURSIVE GCD(_, _)
GCD(a, b) == IF b = 0 THEN a ELSE GCD(b, a % b)

NaN == [num |-> 0, den |-> 0]

\* The float num/den (den > 0, num >= 0).
Rat(num, den) == LET g == GCD(num, den) IN [num |-> num \div g, den |-> den \div g]

IsNaN(x) == x.den = 0

\* x < k for a float x and an integer k; a comparison with NaN is False.
FloatLt(x, k) == x.den > 0 /\ x.num < k * x.den

\* x * k and k - x; NaN propagates.
FloatTimes(x, k) == IF IsNaN(x) THEN NaN ELSE Rat(x.num * k, x.den)
IntMinusFloat(k, x) == IF IsNaN(x) THEN NaN ELSE Rat(k * x.den - x.num, x.den)

RECURSIVE SumSeq(_)
SumSeq(s) == IF s = <<>> THEN 0 ELSE s[1] + SumSeq(Tail(s))

\* Series.mean(): pandas returns NaN for an empty series instead of dividing.
Mean(s) == IF Len(s) > 0 THEN Rat(SumSeq(s), Len(s)) ELSE NaN

\* ------------------------------------------------------------ DataFrames
BlankFrame == [columns |-> {}, rows |-> <<>>]

\* A boolean Series over df's rows: whether the cell of column col is in
\* values (isin), or is below the integer k.
IsIn(df, col, values) == [i \in 1..Len(df.rows) |-> df.rows[i][col] \in values]
IntBelow(df, col, k) == [i \in 1..Len(df.rows) |-> df.rows[i][col] < k]
FloatBelow(df, col, k) == [i \in 1..Len(df.rows) |-> FloatLt(df.rows[i][col], k)]

\* df[mask]: the rows whose entry of the boolean Series mask is True, in order.
BoolIndex(df, mask) ==
    LET kept == SelectSeq([i \in 1..Len(df.rows) |-> i], LAMBDA i : mask[i])
    IN [df EXCEPT !.rows = [j \in 1..Len(kept) |-> df.rows[kept[j]]]]

\* df[col].unique()
Unique(df, col) == {r[col] : r \in Range(df.rows)}

StudentSubject(r) == <<r.Student, r.Subject>>

\* The rows of the group of key k, in order: grouped by (student, subject),
\* and grouped by student.
PairGroup(rows, k) == SelectSeq(rows, LAMBDA r : StudentSubject(r) = k)
StudentGroup(rows, k) == SelectSeq(rows, LAMBDA r : r.Student = k)

PairBefore(a, b) ==
    \/ StrRank(a[1]) < StrRank(b[1])
    \/ a[1] = b[1] /\ StrRank(a[2]) < StrRank(b[2])

\* A set of (student, subject) keys as the sequence groupby visits them:
\* sorted (sort=True is groupby's default).
RECURSIVE SortPairs(_)
SortPairs(S) ==
    IF S = {} THEN <<>>
    ELSE LET first == CHOOSE k \in S : \A o \in S \ {k} : PairBefore(k, o)
         IN <<first>> \o SortPairs(S \ {first})

\* The same for a set of single string keys.
RECURSIVE SortNames(_)
SortNames(S) ==
    IF S = {} THEN <<>>
    ELSE LET first == CHOOSE k \in S : \A o \in S \ {k} : StrRank(k) < StrRank(o)
         IN <<first>> \o SortNames(S \ {first})

\* GroupAttendance without the "* 100": a fraction where a percentage is meant.
GroupAttendanceFraction(df) ==
    LET keys == SortPairs({StudentSubject(r) : r \in Range(df.rows)})
        pct(k) == LET x == PairGroup(df.rows, k)
                      present == [i \in 1..Len(x) |->
                                    IF x[i].Status = "Present" THEN 1 ELSE 0]
                  IN Mean(present)
    IN [columns |-> {"Student", "Subject", "Attendance %"},
        rows |-> [i \in 1..Len(keys) |->
                    [Student |-> keys[i][1], Subject |-> keys[i][2]]
                        @@ ("Attendance %" :> pct(keys[i]))]]

\* GroupAttendance dividing each group's Present count by the length of the
\* whole table instead of the group's.
GroupAttendanceOverall(df) ==
    LET keys == SortPairs({StudentSubject(r) : r \in Range(df.rows)})
        pct(k) == LET x == PairGroup(df.rows, k)
                      present == [i \in 1..Len(x) |->
                                    IF x[i].Status = "Present" THEN 1 ELSE 0]
                  IN Rat(SumSeq(present) * 100, Len(df.rows))
    IN [columns |-> {"Student", "Subject", "Attendance %"},
        rows |-> [i \in 1..Len(keys) |->
                    [Student |-> keys[i][1], Subject |-> keys[i][2]]
                        @@ ("Attendance %" :> pct(keys[i]))]]

\* df.groupby(["Student", "Subject"])["Status"]
\*   .apply(lambda x: (x == "Present").mean() * 100)
\*   .reset_index(name="Attendance %")
GroupAttendance(df) ==
    LET keys == SortPairs({StudentSubject(r) : r \in Range(df.rows)})
        pct(k) == LET x == PairGroup(df.rows, k)
                      present == [i \in 1..Len(x) |->
                                    IF x[i].Status = "Present" THEN 1 ELSE 0]
                  IN FloatTimes(Mean(present), 100)
    IN [columns |-> {"Student", "Subject", "Attendance %"},
        rows |-> [i \in 1..Len(keys) |->
                    [Student |-> keys[i][1], Subject |-> keys[i][2]]
                        @@ ("Attendance %" :> pct(keys[i]))]]

\* ------------------------------------------------------- the script's run
VARIABLES
    csv,      \* the three files on disk: attendance, marks, events
    clock,    \* the date datetime.date.today() returns
    widgets,  \* Streamlit's session state: the four multiselects' values
    page      \* the latest run: its globals, what it emitted, its exception

vars == <<csv, clock, widgets, page>>

\* The script's globals before line 1, nothing emitted, no exception.
BlankRun ==
    [error |-> "none", emitted |-> <<>>,
     attendance_df |-> BlankFrame, marks_df |-> BlankFrame, events_df |-> BlankFrame,
     today |-> 0,
     selected_students_attendance |-> {}, selected_subjects_attendance |-> {},
     selected_students_marks |-> {}, selected_subjects_marks |-> {},
     filtered_df |-> BlankFrame, attendance_summary |-> BlankFrame,
     fig_bar |-> BlankFrame,
     present_ratio |-> NaN, pie_data |-> <<NaN, NaN>>, low_attendance |-> BlankFrame,
     filtered_marks_df |-> BlankFrame, failing_students |-> BlankFrame,
     avg_marks |-> BlankFrame, merged_df |-> BlankFrame,
     special_attention |-> BlankFrame,
     upcoming |-> BlankFrame, near_deadline |-> BlankFrame]

Raise(env, exception) == [env EXCEPT !.error = exception]
Emit(env, elements) == [env EXCEPT !.emitted = @ \o elements]

\* pd.read_csv of the three files: a missing file raises.
LoadData(env, files) ==
    IF ~files.attendance.exists \/ ~files.marks.exists \/ ~files.events.exists
    THEN Raise(env, "FileNotFoundError")
    ELSE [env EXCEPT !.attendance_df = files.attendance.frame,
                     !.marks_df = files.marks.frame,
                     !.events_df = files.events.frame]

\* df["Date"] = pd.to_datetime(df["Date"]).  A cell of a file's Date column
\* is the text [ok, day]: ok says whether the text parses, day is the date
\* it then denotes.
ToDatetime(df) ==
    [df EXCEPT !.rows = [i \in 1..Len(df.rows) |->
                            [df.rows[i] EXCEPT !.Date = @.day]]]

DateError(df) ==
    IF "Date" \notin df.columns THEN "KeyError"
    ELSE IF \E r \in Range(df.rows) : ~r.Date.ok THEN "ValueError"
    ELSE "none"

ConvertDates(env, now) ==
    IF env.error # "none" THEN env
    ELSE IF DateError(env.attendance_df) # "none"
    THEN Raise(env, DateError(env.attendance_df))
    ELSE IF DateError(env.events_df) # "none"
    THEN Raise([env EXCEPT !.attendance_df = ToDatetime(@)],
               DateError(env.events_df))
    ELSE [env EXCEPT !.attendance_df = ToDatetime(@),
                     !.events_df = ToDatetime(@),
                     !.today = now]

\* st.title, the sidebar header and the four multiselects.  Each
\* multiselect returns the value session state holds for its key.
Sidebar(env, state) ==
    IF env.error # "none" THEN env
    ELSE LET titled == Emit(env, <<"title", "sidebar.header">>)
    IN IF ~({"Student", "Subject"} \subseteq env.attendance_df.columns)
       THEN Raise(titled, "KeyError")
       ELSE LET att == Emit([titled EXCEPT
                        !.selected_students_attendance = state.attendance_students,
                        !.selected_subjects_attendance = state.attendance_subjects],
                        <<"multiselect.attendance_students",
                          "multiselect.attendance_subjects">>)
       IN IF ~({"Student", "Subject"} \subseteq env.marks_df.columns)
          THEN Raise(att, "KeyError")
          ELSE Emit([att EXCEPT
                        !.selected_students_marks = state.marks_students,
                        !.selected_subjects_marks = state.marks_subjects],
                    <<"multiselect.marks_students", "multiselect.marks_subjects",
                      "tabs">>)

\* ApplyFilters with the subject filter applied to the unfiltered table, so
\* that it replaces the student filter instead of narrowing it.
ApplyFiltersLastWins(df, selected_students, selected_subjects) ==
    LET by_student ==
            IF ALL_STUDENTS \notin selected_students
            THEN BoolIndex(df, IsIn(df, "Student", selected_students))
            ELSE df
    IN IF ALL_SUBJECTS \notin selected_subjects
       THEN BoolIndex(df, IsIn(df, "Subject", selected_subjects))
       ELSE by_student

\* The filter both tabs apply to their table (lines 81-85 and 132-136).
ApplyFilters(df, selected_students, selected_subjects) ==
    LET copy == df
        by_student ==
            IF ALL_STUDENTS \notin selected_students
            THEN BoolIndex(copy, IsIn(copy, "Student", selected_students))
            ELSE copy
    IN IF ALL_SUBJECTS \notin selected_subjects
       THEN BoolIndex(by_student, IsIn(by_student, "Subject", selected_subjects))
       ELSE by_student

\* Tab1Filter filtering attendance_df itself instead of a copy.
Tab1FilterInPlace(env) ==
    IF env.error # "none" THEN env
    ELSE LET kept == ApplyFilters(env.attendance_df,
                                  env.selected_students_attendance,
                                  env.selected_subjects_attendance)
         IN Emit([env EXCEPT !.attendance_df = kept, !.filtered_df = kept],
                 <<"tab1.header", "tab1.filtered_table">>)

\* Tab 1 up to the filtered table.
Tab1Filter(env) ==
    IF env.error # "none" THEN env
    ELSE Emit([env EXCEPT !.filtered_df =
                    ApplyFilters(env.attendance_df,
                                 env.selected_students_attendance,
                                 env.selected_subjects_attendance)],
              <<"tab1.header", "tab1.filtered_table">>)

\* Tab1Summary grouping over every (student, subject) pair of the whole
\* table, as a groupby over categorical keys does: a pair the filter left no
\* rows of gets a row with a missing percentage.
Tab1SummaryAllGroups(env) ==
    IF env.error # "none" THEN env
    ELSE IF "Status" \notin env.filtered_df.columns THEN Raise(env, "KeyError")
    ELSE LET keys == SortPairs({StudentSubject(r) : r \in Range(env.attendance_df.rows)})
             pct(k) == LET x == PairGroup(env.filtered_df.rows, k)
                           present == [i \in 1..Len(x) |->
                                         IF x[i].Status = "Present" THEN 1 ELSE 0]
                       IN FloatTimes(Mean(present), 100)
             summary == [columns |-> {"Student", "Subject", "Attendance %"},
                         rows |-> [i \in 1..Len(keys) |->
                                     [Student |-> keys[i][1], Subject |-> keys[i][2]]
                                         @@ ("Attendance %" :> pct(keys[i]))]]
         IN Emit([env EXCEPT !.attendance_summary = summary, !.fig_bar = summary],
                 <<"tab1.bar_chart">>)

\* Tab 1: the attendance summary and its bar chart; fig_bar holds the table
\* the chart was drawn from.
Tab1Summary(env) ==
    IF env.error # "none" THEN env
    ELSE IF "Status" \notin env.filtered_df.columns THEN Raise(env, "KeyError")
    ELSE LET summary == GroupAttendance(env.filtered_df)
         IN Emit([env EXCEPT !.attendance_summary = summary, !.fig_bar = summary],
                 <<"tab1.bar_chart">>)

\* Tab 1: the present/absent pie chart.
Tab1Pie(env) ==
    IF env.error # "none" THEN env
    ELSE LET x == env.filtered_df.rows
             present == [i \in 1..Len(x) |->
                            IF x[i].Status = "Present" THEN 1 ELSE 0]
             ratio == FloatTimes(Mean(present), 100)
         IN Emit([env EXCEPT !.present_ratio = ratio,
                             !.pie_data = <<ratio, IntMinusFloat(100, ratio)>>],
                 <<"tab1.pie_chart">>)

\* Tab1LowAttendance with <= for <.
Tab1LowAttendanceInclusive(env) ==
    IF env.error # "none" THEN env
    ELSE LET low == BoolIndex(env.attendance_summary,
                        [i \in 1..Len(env.attendance_summary.rows) |->
                            LET x == env.attendance_summary.rows[i]["Attendance %"]
                            IN FloatLt(x, LOW_ATTENDANCE_THRESHOLD)
                                \/ x = Rat(LOW_ATTENDANCE_THRESHOLD, 1)])
         IN Emit([env EXCEPT !.low_attendance = low],
                 IF low.rows # <<>> THEN <<"tab1.low_attendance_alert">> ELSE <<>>)

\* Tab 1: the low-attendance alert.
Tab1LowAttendance(env) ==
    IF env.error # "none" THEN env
    ELSE LET low == BoolIndex(env.attendance_summary,
                        FloatBelow(env.attendance_summary, "Attendance %",
                                   LOW_ATTENDANCE_THRESHOLD))
         IN Emit([env EXCEPT !.low_attendance = low],
                 IF low.rows # <<>> THEN <<"tab1.low_attendance_alert">> ELSE <<>>)

\* Tab 2 up to the marks table.
Tab2Filter(env) ==
    IF env.error # "none" THEN env
    ELSE Emit([env EXCEPT !.filtered_marks_df =
                    ApplyFilters(env.marks_df,
                                 env.selected_students_marks,
                                 env.selected_subjects_marks)],
              <<"tab2.header", "tab2.marks_table">>)

\* Tab 2: the failing-marks alert.
Tab2Failing(env) ==
    IF env.error # "none" THEN env
    ELSE IF "Marks" \notin env.filtered_marks_df.columns THEN Raise(env, "KeyError")
    ELSE LET failing == BoolIndex(env.filtered_marks_df,
                            IntBelow(env.filtered_marks_df, "Marks",
                                     FAILING_MARK_THRESHOLD))
         IN Emit([env EXCEPT !.failing_students = failing],
                 IF failing.rows # <<>> THEN <<"tab2.failing_alert">> ELSE <<>>)

\* filtered_marks_df.groupby("Student")["Marks"].mean().reset_index()
GroupMarks(df) ==
    LET keys == SortNames(Unique(df, "Student"))
        mean(k) == LET x == StudentGroup(df.rows, k)
                   IN Mean([i \in 1..Len(x) |-> x[i].Marks])
    IN [columns |-> {"Student", "Marks"},
        rows |-> [i \in 1..Len(keys) |-> [Student |-> keys[i], Marks |-> mean(keys[i])]]]

\* Tab 2: average marks per student, its bar chart and the box plot.
Tab2Average(env) ==
    IF env.error # "none" THEN env
    ELSE Emit([env EXCEPT !.avg_marks = GroupMarks(env.filtered_marks_df)],
              <<"tab2.avg_chart", "tab2.box_plot">>)

\* MergeRow with a missing percentage filled in as 0.
MergeRowFillZero(l, right) ==
    LET matches == PairGroup(right.rows, StudentSubject(l))
    IN IF matches = <<>> THEN <<l @@ ("Attendance %" :> Rat(0, 1))>>
       ELSE [i \in 1..Len(matches) |->
                l @@ ("Attendance %" :> matches[i]["Attendance %"])]

\* One left row of pd.merge(left, right, on=["Student", "Subject"],
\* how="left"): joined with each right row of its key, or with NaN.
MergeRow(l, right) ==
    LET matches == PairGroup(right.rows, StudentSubject(l))
    IN IF matches = <<>> THEN <<l @@ ("Attendance %" :> NaN)>>
       ELSE [i \in 1..Len(matches) |->
                l @@ ("Attendance %" :> matches[i]["Attendance %"])]

RECURSIVE MergeRows(_, _)
MergeRows(left_rows, right) ==
    IF left_rows = <<>> THEN <<>>
    ELSE MergeRow(left_rows[1], right) \o MergeRows(Tail(left_rows), right)

MergeLeft(left, right) ==
    [columns |-> left.columns \cup right.columns,
     rows |-> MergeRows(left.rows, right)]

\* Tab2SpecialAttention without the second groupby: it merges with the
\* attendance_summary tab 1 left behind, the summary of the filtered table.
Tab2SpecialAttentionReuse(env) ==
    IF env.error # "none" THEN env
    ELSE LET summary == env.attendance_summary
             merged == MergeLeft(env.filtered_marks_df, summary)
             low_marks == IntBelow(merged, "Marks", FAILING_MARK_THRESHOLD)
             low_pct == FloatBelow(merged, "Attendance %", LOW_ATTENDANCE_THRESHOLD)
             special == BoolIndex(merged,
                            [i \in 1..Len(merged.rows) |-> low_marks[i] /\ low_pct[i]])
         IN Emit([env EXCEPT !.attendance_summary = summary,
                             !.merged_df = merged,
                             !.special_attention = special],
                 IF special.rows # <<>>
                 THEN <<"tab2.special_alert", "tab2.scatter">>
                 ELSE <<"tab2.all_clear">>)

\* Tab 2: the special-attention section.  attendance_summary is assigned
\* again here, from the whole attendance_df.
Tab2SpecialAttention(env) ==
    IF env.error # "none" THEN env
    ELSE LET summary == GroupAttendance(env.attendance_df)
             merged == MergeLeft(env.filtered_marks_df, summary)
             low_marks == IntBelow(merged, "Marks", FAILING_MARK_THRESHOLD)
             low_pct == FloatBelow(merged, "Attendance %", LOW_ATTENDANCE_THRESHOLD)
             special == BoolIndex(merged,
                            [i \in 1..Len(merged.rows) |-> low_marks[i] /\ low_pct[i]])
         IN Emit([env EXCEPT !.attendance_summary = summary,
                             !.merged_df = merged,
                             !.special_attention = special],
                 IF special.rows # <<>>
                 THEN <<"tab2.special_alert", "tab2.scatter">>
                 ELSE <<"tab2.all_clear">>)

\* sort_values("Date"): the rows in ascending date order, rows of one date
\* in their original order.
RECURSIVE SortByDate(_)
SortByDate(rows) ==
    IF rows = <<>> THEN <<>>
    ELSE LET first == CHOOSE i \in 1..Len(rows) :
                        /\ \A j \in 1..Len(rows) : rows[i].Date <= rows[j].Date
                        /\ \A j \in 1..(i - 1) : rows[j].Date # rows[i].Date
             rest == [j \in 1..(Len(rows) - 1) |->
                        IF j < first THEN rows[j] ELSE rows[j + 1]]
         IN <<rows[first]>> \o SortByDate(rest)

\* Tab3 with < for <= at the end of the window.
Tab3Exclusive(env) ==
    IF env.error # "none" THEN env
    ELSE LET future == BoolIndex(env.events_df,
                            [i \in 1..Len(env.events_df.rows) |->
                                env.events_df.rows[i].Date >= env.today])
             sorted == [future EXCEPT !.rows = SortByDate(@)]
             near == BoolIndex(sorted,
                        IntBelow(sorted, "Date", env.today + DEADLINE_DAYS))
         IN Emit([env EXCEPT !.upcoming = sorted, !.near_deadline = near],
                 <<"tab3.header", "tab3.upcoming_table">>
                    \o (IF near.rows # <<>> THEN <<"tab3.deadline_alert">> ELSE <<>>))

\* Tab 3: upcoming events and the near-deadline alert.
Tab3(env) ==
    IF env.error # "none" THEN env
    ELSE LET future == BoolIndex(env.events_df,
                            [i \in 1..Len(env.events_df.rows) |->
                                env.events_df.rows[i].Date >= env.today])
             sorted == [future EXCEPT !.rows = SortByDate(@)]
             near == BoolIndex(sorted,
                        [i \in 1..Len(sorted.rows) |->
                            sorted.rows[i].Date <= env.today + DEADLINE_DAYS])
         IN Emit([env EXCEPT !.upcoming = sorted, !.near_deadline = near],
                 <<"tab3.header", "tab3.upcoming_table">>
                    \o (IF near.rows # <<>> THEN <<"tab3.deadline_alert">> ELSE <<>>))

\* One execution of app.py, top to bottom.
RunScript(files, now, state) ==
    LET loaded == ConvertDates(LoadData(BlankRun, files), now)
        tab1 == Tab1LowAttendance(Tab1Pie(Tab1Summary(Tab1Filter(
                    Sidebar(loaded, state)))))
        tab2 == Tab2SpecialAttention(Tab2Average(Tab2Failing(Tab2Filter(tab1))))
    IN Tab3(tab2)

\* ------------------------------------------------------------ the inputs
Students == {"Ann", "Bob"}
Subjects == {"Math", "Sci"}
Statuses == {"Present", "Absent"}
MarkValues == {FAILING_MARK_THRESHOLD - 1, FAILING_MARK_THRESHOLD}

SeqsUpTo(S, n) == UNION {[1..k -> S] : k \in 0..n}

DateText(d) == [ok |-> TRUE, day |-> d]

ATTENDANCE_COLUMNS == {"Student", "Subject", "Date", "Status"}
MARKS_COLUMNS == {"Student", "Subject", "Marks"}
EVENTS_COLUMNS == {"Event", "Date", "Subject"}

\* An attendance file: one row per entry of log, dated by its position.
AttendanceFile(log) ==
    [exists |-> TRUE,
     frame |-> [columns |-> ATTENDANCE_COLUMNS,
                rows |-> [i \in 1..Len(log) |->
                            [Student |-> log[i][1], Subject |-> log[i][2],
                             Date |-> DateText(i), Status |-> log[i][3]]]]]

MarksFile(list) ==
    [exists |-> TRUE,
     frame |-> [columns |-> MARKS_COLUMNS,
                rows |-> [i \in 1..Len(list) |->
                            [Student |-> list[i][1], Subject |-> list[i][2],
                             Marks |-> list[i][3]]]]]

EventsFile(days) ==
    [exists |-> TRUE,
     frame |-> [columns |-> EVENTS_COLUMNS,
                rows |-> [i \in 1..Len(days) |->
                            [Event |-> "Quiz", Date |-> DateText(days[i]),
                             Subject |-> "Math"]]]]

\* Attendance logs of one student in one subject, up to MaxAtt rows, and of
\* two students in two subjects, up to MaxWide rows.
DeepLogs == SeqsUpTo({"Ann"} \X {"Math"} \X Statuses, MaxAtt)
WideLogs == SeqsUpTo(Students \X Subjects \X Statuses, MaxWide)
MarksLists == SeqsUpTo(Students \X Subjects \X MarkValues, MaxMarks)
EventDays == SeqsUpTo(0..MaxDay, MaxEvents)

\* A sample data set.  Attendance: Ann/Math 0%, Ann/Sci 75%, Bob/Math 100%,
\* nothing for Bob/Sci.
SampleLog ==
    << <<"Ann", "Math", "Absent">>, <<"Ann", "Sci", "Present">>,
       <<"Bob", "Math", "Present">>, <<"Ann", "Sci", "Present">>,
       <<"Ann", "Sci", "Absent">>, <<"Ann", "Sci", "Present">> >>
SampleMarks ==
    << <<"Bob", "Sci", 39>>, <<"Ann", "Math", 39>>, <<"Ann", "Sci", 39>>,
       <<"Bob", "Math", 39>>, <<"Ann", "Math", 40>> >>
SampleDays == <<9, 0, 1, 8, 3>>

\* A second one: Bob/Sci 50%, Ann/Math 100%.
OtherLog ==
    << <<"Bob", "Sci", "Absent">>, <<"Ann", "Math", "Present">>,
       <<"Bob", "Sci", "Present">> >>
OtherMarks == << <<"Bob", "Sci", 39>>, <<"Ann", "Math", 39>>, <<"Bob", "Math", 41>> >>
OtherDays == <<8, 9>>

\* The multiselects' default values.
Defaults ==
    [attendance_students |-> {ALL_STUDENTS}, attendance_subjects |-> {ALL_SUBJECTS},
     marks_students |-> {ALL_STUDENTS}, marks_subjects |-> {ALL_SUBJECTS}]

InitWith(files, now) ==
    /\ csv = files
    /\ clock = now
    /\ widgets = Defaults
    /\ page = BlankRun

\* --------------------------------------------------------------- actions
Rendered(element) == element \in Range(page.emitted)

Rerun(state) ==
    /\ widgets' = state
    /\ page' = RunScript(csv, clock, state)
    /\ UNCHANGED <<csv, clock>>

\* The first visit: the script runs with the widgets' defaults.
FirstRun ==
    /\ page = BlankRun
    /\ Rerun(widgets)

SelectAttendanceStudents ==
    /\ Rendered("multiselect.attendance_students")
    /\ \E s \in SUBSET ({ALL_STUDENTS} \cup Unique(page.attendance_df, "Student")) :
          /\ s # widgets.attendance_students
          /\ Rerun([widgets EXCEPT !.attendance_students = s])

SelectAttendanceSubjects ==
    /\ Rendered("multiselect.attendance_subjects")
    /\ \E s \in SUBSET ({ALL_SUBJECTS} \cup Unique(page.attendance_df, "Subject")) :
          /\ s # widgets.attendance_subjects
          /\ Rerun([widgets EXCEPT !.attendance_subjects = s])

SelectMarksStudents ==
    /\ Rendered("multiselect.marks_students")
    /\ \E s \in SUBSET ({ALL_STUDENTS} \cup Unique(page.marks_df, "Student")) :
          /\ s # widgets.marks_students
          /\ Rerun([widgets EXCEPT !.marks_students = s])

SelectMarksSubjects ==
    /\ Rendered("multiselect.marks_subjects")
    /\ \E s \in SUBSET ({ALL_SUBJECTS} \cup Unique(page.marks_df, "Subject")) :
          /\ s # widgets.marks_subjects
          /\ Rerun([widgets EXCEPT !.marks_subjects = s])

Next ==
    \/ FirstRun
    \/ SelectAttendanceStudents
    \/ SelectAttendanceSubjects
    \/ SelectMarksStudents
    \/ SelectMarksSubjects

NextMarksTab ==
    \/ FirstRun
    \/ SelectMarksStudents
    \/ SelectMarksSubjects

Files(log, list, days) ==
    [attendance |-> AttendanceFile(log), marks |-> MarksFile(list),
     events |-> EventsFile(days)]

\* A file as it is when one of its columns is missing.
WithoutColumn(file, col) ==
    [file EXCEPT !.frame = [columns |-> @.columns \ {col},
                            rows |-> [i \in 1..Len(@.rows) |->
                                        [c \in DOMAIN @.rows[i] \ {col} |->
                                            @.rows[i][c]]]]]

\* A file whose first row's date does not parse.
WithBadDate(file) ==
    [file EXCEPT !.frame.rows[1].Date.ok = FALSE]

Missing(file) == [file EXCEPT !.exists = FALSE]

\* The sample files and what one fault makes of one of them.
FaultyFiles ==
    LET good == Files(SampleLog, SampleMarks, SampleDays)
        faults(name, cols) ==
            {[good EXCEPT ![name] = Missing(@)]}
            \cup {[good EXCEPT ![name] = WithoutColumn(@, c)] : c \in cols}
            \cup (IF "Date" \in cols
                  THEN {[good EXCEPT ![name] = WithBadDate(@)]} ELSE {})
    IN faults("attendance", ATTENDANCE_COLUMNS)
        \cup faults("marks", MARKS_COLUMNS)
        \cup faults("events", EVENTS_COLUMNS)

\* The dashboard over the sample files, sound or with one fault.
Init ==
    \E files \in {Files(SampleLog, SampleMarks, SampleDays),
                   Files(OtherLog, OtherMarks, OtherDays)} \cup FaultyFiles :
        InitWith(files, 1)

\* Attendance tables vary (marks and events empty), or marks tables vary
\* (attendance and events empty), or both tables sit on their thresholds:
\* three of four sessions attended, and a mark of exactly 40.
InitTabs ==
    \/ \E log \in DeepLogs \cup WideLogs : InitWith(Files(log, <<>>, <<>>), 1)
    \/ \E list \in MarksLists : InitWith(Files(<<>>, list, <<>>), 1)
    \/ InitWith(Files(<< <<"Ann", "Math", "Present">>, <<"Ann", "Math", "Absent">>,
                         <<"Ann", "Math", "Present">>, <<"Ann", "Math", "Present">> >>,
                      << <<"Ann", "Math", FAILING_MARK_THRESHOLD>> >>, <<>>), 1)

\* Marks tables vary over the sample attendance; the user works the marks
\* filters (SpecMarks).  What the attendance filters do to the marks tab is
\* the subject of C6, under Spec.
InitMarks ==
    \E list \in MarksLists : InitWith(Files(SampleLog, list, <<>>), 1)

\* Events tables and the date vary.
InitEvents ==
    \E days \in EventDays, now \in 1..MaxToday :
        InitWith(Files(<<>>, <<>>, days), now)

Spec == Init /\ [][Next]_vars
SpecTabs == InitTabs /\ [][Next]_vars
SpecMarks == InitMarks /\ [][NextMarksTab]_vars
SpecEvents == InitEvents /\ [][Next]_vars

\* ------------------------------------------------------------ properties
\* The properties are stated over the files, the widget values and the
\* page, with the thresholds written out.

\* The latest run went through to the end.
Ran == page.error = "none" /\ page.emitted # <<>>

AttendanceRows == csv.attendance.frame.rows
MarksRows == csv.marks.frame.rows

AttendanceChosen(r) ==
    /\ "All Students" \in widgets.attendance_students
            \/ r.Student \in widgets.attendance_students
    /\ "All Subjects" \in widgets.attendance_subjects
            \/ r.Subject \in widgets.attendance_subjects

MarksChosen(r) ==
    /\ "All Students" \in widgets.marks_students
            \/ r.Student \in widgets.marks_students
    /\ "All Subjects" \in widgets.marks_subjects
            \/ r.Subject \in widgets.marks_subjects

\* The positions in rows of the sessions of student k[1] in subject k[2],
\* and those among them marked Present.
Sessions(rows, k) ==
    {i \in 1..Len(rows) : rows[i].Student = k[1] /\ rows[i].Subject = k[2]}
Attended(rows, k) == {i \in Sessions(rows, k) : rows[i].Status = "Present"}

KeyOf(r) == <<r.Student, r.Subject>>
MarkRecord(r) == [Student |-> r.Student, Subject |-> r.Subject, Marks |-> r.Marks]

\* C1: the special-attention table holds exactly the mark records the marks
\* filter keeps whose marks are below 40 and whose (student, subject) pair
\* has sessions in the whole attendance table, fewer than 75% of them
\* Present; each carries that percentage.  A mark record whose pair has no
\* session is never in it.
C1_SpecialAttention ==
    Ran =>
        LET n(r) == Cardinality(Sessions(AttendanceRows, KeyOf(r)))
            p(r) == Cardinality(Attended(AttendanceRows, KeyOf(r)))
            Flagged(r) == /\ MarksChosen(r)
                          /\ r.Marks < 40
                          /\ n(r) > 0
                          /\ 100 * p(r) < 75 * n(r)
            special == page.special_attention.rows
        IN /\ [i \in 1..Len(special) |-> MarkRecord(special[i])]
                = SelectSeq(MarksRows, Flagged)
           /\ \A i \in 1..Len(special) :
                LET x == special[i]["Attendance %"]
                IN x.den > 0 /\ x.num * n(special[i]) = 100 * p(special[i]) * x.den

\* A failing mark record with low attendance is flagged while another
\* failing mark record, whose pair has no session at all, is not.
C1_Witness ==
    /\ Ran
    /\ page.special_attention.rows # <<>>
    /\ \E r \in Range(page.filtered_marks_df.rows) :
          r.Marks < 40 /\ Sessions(AttendanceRows, KeyOf(r)) = {}

\* table is the summary of rows: one row per (student, subject) pair of
\* rows, its percentage 100 * Present / sessions.
IsSummaryOf(table, rows) ==
    LET keys == {KeyOf(r) : r \in Range(rows)}
    IN /\ Len(table.rows) = Cardinality(keys)
       /\ {KeyOf(t) : t \in Range(table.rows)} = keys
       /\ \A t \in Range(table.rows) :
            LET n == Cardinality(Sessions(rows, KeyOf(t)))
                p == Cardinality(Attended(rows, KeyOf(t)))
                x == t["Attendance %"]
            IN /\ x.den > 0
               /\ x.num * n = 100 * p * x.den
               /\ 0 <= x.num /\ x.num <= 100 * x.den
               /\ (x.num = 100 * x.den) <=> (p = n)
               /\ (x.num = 0) <=> (p = 0)

\* C2: both attendance summaries (of the filtered table, drawn in tab 1, and
\* of the whole table, computed in tab 2) have one row per (student,
\* subject) pair of their records, with attendance_percent = 100 * Present /
\* group size, in [0, 100], 100 iff all are Present and 0 iff none is.
C2_AttendancePercent ==
    Ran => /\ IsSummaryOf(page.fig_bar, SelectSeq(AttendanceRows, AttendanceChosen))
           /\ IsSummaryOf(page.attendance_summary, AttendanceRows)

\* A group that is neither all Present nor all Absent.
C2_Witness ==
    /\ Ran
    /\ \E t \in Range(page.fig_bar.rows) :
          LET x == t["Attendance %"] IN 0 < x.num /\ x.num < 100 * x.den

\* C3: the low-attendance list is exactly the rows of the filtered table's
\* summary below 75%, the failing list exactly the filtered mark records
\* below 40; 75% and 40 themselves are not listed.
C3_StrictThresholds ==
    Ran =>
        LET chosen == SelectSeq(AttendanceRows, AttendanceChosen)
            Low(t) == 100 * Cardinality(Attended(chosen, KeyOf(t)))
                        < 75 * Cardinality(Sessions(chosen, KeyOf(t)))
            Failing(r) == MarksChosen(r) /\ r.Marks < 40
        IN /\ page.low_attendance.rows = SelectSeq(page.fig_bar.rows, Low)
           /\ page.failing_students.rows = SelectSeq(MarksRows, Failing)

\* A pair at exactly 75% and a mark of exactly 40, neither listed.
C3_Witness ==
    /\ Ran
    /\ \E t \in Range(page.fig_bar.rows) :
          /\ t["Attendance %"] = [num |-> 75, den |-> 1]
          /\ t \notin Range(page.low_attendance.rows)
    /\ \E r \in Range(page.filtered_marks_df.rows) :
          r.Marks = 40 /\ r \notin Range(page.failing_students.rows)

\* C4: each filter keeps exactly the rows whose student is selected (or the
\* student sentinel is) and whose subject is selected (or the subject
\* sentinel is); with both sentinels the table comes back whole, with an
\* empty selection no row does.
C4_Filter ==
    Ran =>
        /\ page.filtered_df.rows
                = SelectSeq(ToDatetime(csv.attendance.frame).rows, AttendanceChosen)
        /\ page.filtered_marks_df.rows = SelectSeq(MarksRows, MarksChosen)
        /\ ("All Students" \in widgets.attendance_students
                /\ "All Subjects" \in widgets.attendance_subjects)
              => page.filtered_df.rows = ToDatetime(csv.attendance.frame).rows
        /\ ("All Students" \in widgets.marks_students
                /\ "All Subjects" \in widgets.marks_subjects)
              => page.filtered_marks_df.rows = MarksRows
        /\ (widgets.attendance_students = {} \/ widgets.attendance_subjects = {})
              => page.filtered_df.rows = <<>>
        /\ (widgets.marks_students = {} \/ widgets.marks_subjects = {})
              => page.filtered_marks_df.rows = <<>>

\* Explicit selections on both dimensions keep one row and drop another of
\* a selected student, for its subject.
C4_Witness ==
    /\ Ran
    /\ "All Students" \notin widgets.attendance_students
    /\ "All Subjects" \notin widgets.attendance_subjects
    /\ page.filtered_df.rows # <<>>
    /\ \E r \in Range(AttendanceRows) :
          /\ r.Student \in widgets.attendance_students
          /\ r.Subject \notin widgets.attendance_subjects

\* How often x occurs in the sequence s.
Count(s, x) == Cardinality({i \in 1..Len(s) : s[i] = x})

\* C5: the near-deadline list holds exactly the events dated today to
\* today + 7, both days included, each as often as the events table has it.
C5_NearDeadline ==
    Ran =>
        LET events == [i \in 1..Len(csv.events.frame.rows) |->
                        [csv.events.frame.rows[i] EXCEPT !.Date = @.day]]
            near == page.near_deadline.rows
        IN \A e \in Range(events) \cup Range(near) :
             Count(near, e) = IF clock <= e.Date /\ e.Date <= clock + 7
                              THEN Count(events, e) ELSE 0

\* An event dated today + 7 is listed and one dated today + 8 is not.
C5_Witness ==
    /\ Ran
    /\ \E e \in Range(page.near_deadline.rows) : e.Date = clock + 7
    /\ \E e \in Range(page.events_df.rows) : e.Date = clock + 8

AttendanceTabOutputs ==
    <<page.filtered_df, page.fig_bar, page.pie_data, page.low_attendance>>
MarksTabOutputs ==
    <<page.filtered_marks_df, page.failing_students, page.avg_marks,
      page.merged_df, page.special_attention>>

\* C6: a rerun that leaves the marks selections as they were leaves every
\* marks-tab output as it was, whatever it does to the attendance
\* selections; and the same with the tabs exchanged.
C6_TabsIndependent ==
    [][page # BlankRun =>
        /\ (widgets'.marks_students = widgets.marks_students
                /\ widgets'.marks_subjects = widgets.marks_subjects)
              => MarksTabOutputs' = MarksTabOutputs
        /\ (widgets'.attendance_students = widgets.attendance_students
                /\ widgets'.attendance_subjects = widgets.attendance_subjects)
              => AttendanceTabOutputs' = AttendanceTabOutputs]_vars

\* The attendance tab is filtered down to nothing while the marks tab still
\* flags a student for special attention.
C6_Witness ==
    /\ Ran
    /\ widgets.attendance_students = {}
    /\ page.filtered_df.rows = <<>>
    /\ page.special_attention.rows # <<>>

\* Every file is there, with all its columns and parseable dates.
SoundFiles ==
    /\ csv.attendance.exists /\ csv.marks.exists /\ csv.events.exists
    /\ csv.attendance.frame.columns = {"Student", "Subject", "Date", "Status"}
    /\ csv.marks.frame.columns = {"Student", "Subject", "Marks"}
    /\ csv.events.frame.columns = {"Event", "Date", "Subject"}
    /\ \A r \in Range(csv.attendance.frame.rows) \cup Range(csv.events.frame.rows) :
          r.Date.ok

\* C7: nothing is rendered unless all three tables loaded with every
\* required column and every date parsed.
C7_NoPartialDashboard == page.emitted # <<>> => SoundFiles

\* C8: over sound files no run fails and every chart is drawn; when the
\* attendance filter leaves no row the summary and the low-attendance list
\* are empty and the pie chart's pair is missing (otherwise it is two
\* percentages adding up to 100); when the marks filter leaves no row the
\* failing list, the averages and the special-attention table are empty.
C8_EmptyTolerated ==
    page # BlankRun =>
        LET x == page.pie_data[1]
            y == page.pie_data[2]
        IN /\ page.error = "none"
           /\ {"tab1.bar_chart", "tab1.pie_chart", "tab2.avg_chart",
                "tab2.box_plot", "tab3.upcoming_table"} \subseteq Range(page.emitted)
           /\ page.filtered_df.rows = <<>>
                => /\ page.fig_bar.rows = <<>>
                   /\ page.low_attendance.rows = <<>>
                   /\ x.den = 0 /\ y.den = 0
           /\ page.filtered_df.rows # <<>>
                => /\ x.den > 0 /\ y.den > 0
                   /\ 0 <= x.num /\ 0 <= y.num
                   /\ x.num * y.den + y.num * x.den = 100 * x.den * y.den
           /\ page.filtered_marks_df.rows = <<>>
                => /\ page.failing_students.rows = <<>>
                   /\ page.avg_marks.rows = <<>>
                   /\ page.special_attention.rows = <<>>
                   /\ "tab2.all_clear" \in Range(page.emitted)

\* A student and a subject are selected that both occur in the table, but
\* not together: the filter leaves nothing.
C8_Witness ==
    /\ Ran
    /\ widgets.attendance_students # {}
    /\ widgets.attendance_students \subseteq {r.Student : r \in Range(AttendanceRows)}
    /\ widgets.attendance_subjects # {}
    /\ widgets.attendance_subjects \subseteq {r.Subject : r \in Range(AttendanceRows)}
    /\ page.filtered_df.rows = <<>>

\* C9: once the tables are loaded, whatever was selected, the run ends with
\* the three raw tables holding the files' rows (dates parsed), in order.
C9_RawTablesKept ==
    "title" \in Range(page.emitted) =>
        /\ page.attendance_df = ToDatetime(csv.attendance.frame)
        /\ page.marks_df = csv.marks.frame
        /\ page.events_df = ToDatetime(csv.events.frame)

\* Both filters and the events filter have dropped rows.
C9_Witness ==
    /\ Ran
    /\ page.filtered_df.rows # <<>>
    /\ Len(page.filtered_df.rows) < Len(AttendanceRows)
    /\ page.filtered_marks_df.rows # <<>>
    /\ Len(page.filtered_marks_df.rows) < Len(MarksRows)
    /\ Len(page.near_deadline.rows) < Len(csv.events.frame.rows)
    /\ page.special_attention.rows # <<>>

\* C10: every row of the filtered table's summary is a row of the whole
\* table's summary, and the filter keeps each (student, subject) group whole
\* or drops it whole.
C10_FilteredSummarySubset ==
    Ran =>
        /\ Range(page.fig_bar.rows) \subseteq Range(page.attendance_summary.rows)
        /\ \A k \in {KeyOf(r) : r \in Range(AttendanceRows)} :
              \/ Sessions(page.filtered_df.rows, k) = {}
              \/ Cardinality(Sessions(page.filtered_df.rows, k))
                    = Cardinality(Sessions(AttendanceRows, k))

\* The filter keeps one group and drops another.
C10_Witness ==
    /\ Ran
    /\ page.fig_bar.rows # <<>>
    /\ Len(page.fig_bar.rows) < Len(page.attendance_summary.rows)
====
